---- MODULE Spec2Model ----
(***************************************************************************)
(* Rule engine, move enumerator, evaluator and beam-search planner of the  *)
(* beam1010 package.                                                       *)
(*                                                                         *)
(* Python objects are modelled with identity: `boards` and `states` are    *)
(* stores of Board and GameState objects, and a reference is an index into *)
(* a store.  A function that builds a new tuple appends to the store; a    *)
(* function that returns its argument returns the same index.              *)
(* Rows, columns and hand indices are 0-based as in the source; sequences  *)
(* are 1-based, so cell (r, c) of a grid g is g[r + 1][c + 1].             *)
(***************************************************************************)
EXTENDS Integers, Sequences, FiniteSets, TLC

VARIABLES boards, states, args, ret, nodes, beam, step, max_depth, pc

vars == <<boards, states, args, ret, nodes, beam, step, max_depth, pc>>

(***************************************************************************)
(* Bounds of the model.                                                    *)
(***************************************************************************)
MaxRows == 2
MaxCols == 2

NoBoard == 0

(***************************************************************************)
(* pieces.py                                                               *)
(***************************************************************************)
single == [name |-> "single", shape |-> << <<1>> >>]
blank == [name |-> "blank", shape |-> << <<0>> >>]
line2_h == [name |-> "line2_h", shape |-> << <<1, 1>> >>]
line2_v == [name |-> "line2_v", shape |-> << <<1>>, <<1>> >>]
pad_h == [name |-> "pad_h", shape |-> << <<0, 1>> >>]

Catalog == {single, blank, line2_h, line2_v, pad_h}

height(piece) == Len(piece.shape)

width(piece) == IF piece.shape # <<>> THEN Len(piece.shape[1]) ELSE 0

RECURSIVE SumSeq(_)
SumSeq(s) == IF s = <<>> THEN 0 ELSE Head(s) + SumSeq(Tail(s))

block_count(piece) == SumSeq([i \in 1..Len(piece.shape) |-> SumSeq(piece.shape[i])])

(***************************************************************************)
(* state.py: Board                                                         *)
(***************************************************************************)
\* The boards a run starts from: every grid of up to MaxRows x MaxCols cells
\* whose filled cells all hold one of the fill values 1 and 2.
FillValues == {1, 2}

BoardsOf(h, w) == UNION {[1..h -> [1..w -> {0, v}]] : v \in FillValues}

InitBoards == UNION {BoardsOf(h, w) : h \in 1..MaxRows, w \in 1..MaxCols}

\* The boards a game state starts from: filled cells hold the default fill 1.
PlayBoards == UNION {[1..h -> [1..w -> {0, 1}]] : h \in 1..MaxRows, w \in 1..MaxCols}

\* Positions: on the board, one row or column before it, one after it.
Rows == -1..MaxRows
Cols == -1..MaxCols

(***************************************************************************)
(* rules.py: can_place.  The two nested loops are walked in order; k is    *)
(* the position i * width + j of the loop.                                 *)
(***************************************************************************)
RECURSIVE can_place_loop(_, _, _, _, _)
can_place_loop(board, piece, row, col, k) ==
    IF k >= height(piece) * width(piece) THEN TRUE
    ELSE LET i == k \div width(piece)
             j == k % width(piece)
             br == row + i
             bc == col + j
         IN  IF piece.shape[i + 1][j + 1] # 1
                THEN can_place_loop(board, piece, row, col, k + 1)
             ELSE IF br < 0 \/ br >= Len(board) THEN FALSE
             ELSE IF bc < 0 \/ bc >= Len(board[1]) THEN FALSE
             ELSE IF board[br + 1][bc + 1] # 0 THEN FALSE
             ELSE can_place_loop(board, piece, row, col, k + 1)

can_place_unchecked_overlap(board, piece, row, col) ==
    \A i \in 0..(height(piece) - 1), j \in 0..(width(piece) - 1) :
        piece.shape[i + 1][j + 1] = 1 =>
            /\ row + i >= 0 /\ row + i < Len(board)
            /\ col + j >= 0 /\ col + j < Len(board[1])

can_place_whole_box(board, piece, row, col) ==
    \A i \in 0..(height(piece) - 1), j \in 0..(width(piece) - 1) :
        /\ row + i >= 0 /\ row + i < Len(board)
        /\ col + j >= 0 /\ col + j < Len(board[1])
        /\ board[row + i + 1][col + j + 1] = 0

can_place(board, piece, row, col) == can_place_loop(board, piece, row, col, 0)

(***************************************************************************)
(* rules.py: place_piece.  `grid` is the local copy of lines 33-37; the    *)
(* tuple built at line 38 is a new object of the store.                    *)
(***************************************************************************)
RECURSIVE place_loop(_, _, _, _, _, _)
place_loop(grid, piece, row, col, value, k) ==
    IF k >= height(piece) * width(piece) THEN grid
    ELSE LET i == k \div width(piece)
             j == k % width(piece)
         IN  IF piece.shape[i + 1][j + 1] = 1
                THEN place_loop([grid EXCEPT ![row + i + 1][col + j + 1] = value],
                                piece, row, col, value, k + 1)
                ELSE place_loop(grid, piece, row, col, value, k + 1)

RECURSIVE place_clipped(_, _, _, _, _, _)
place_clipped(grid, piece, row, col, value, k) ==
    IF k >= height(piece) * width(piece) THEN grid
    ELSE LET i == k \div width(piece)
             j == k % width(piece)
             inside == /\ row + i >= 0 /\ row + i < Len(grid)
                       /\ col + j >= 0 /\ col + j < Len(grid[1])
         IN  IF piece.shape[i + 1][j + 1] = 1 /\ inside
                THEN place_clipped([grid EXCEPT ![row + i + 1][col + j + 1] = value],
                                   piece, row, col, value, k + 1)
                ELSE place_clipped(grid, piece, row, col, value, k + 1)

place_piece_unchecked(bs, b, piece, row, col, value) ==
    [raised |-> FALSE,
     boards |-> Append(bs, place_clipped(bs[b], piece, row, col, value, 0)),
     board |-> Len(bs) + 1]

place_piece_ignoring_value(bs, b, piece, row, col, value) ==
    IF ~can_place(bs[b], piece, row, col)
        THEN [raised |-> TRUE, boards |-> bs, board |-> NoBoard]
        ELSE [raised |-> FALSE,
              boards |-> Append(bs, place_loop(bs[b], piece, row, col, 1, 0)),
              board |-> Len(bs) + 1]

place_piece_in_place(bs, b, piece, row, col, value) ==
    IF ~can_place(bs[b], piece, row, col)
        THEN [raised |-> TRUE, boards |-> bs, board |-> NoBoard]
        ELSE [raised |-> FALSE,
              boards |-> [bs EXCEPT ![b] = place_loop(bs[b], piece, row, col, value, 0)],
              board |-> b]

place_piece(bs, b, piece, row, col, value) ==
    IF ~can_place(bs[b], piece, row, col)
        THEN [raised |-> TRUE, boards |-> bs, board |-> NoBoard]
        ELSE [raised |-> FALSE,
              boards |-> Append(bs, place_loop(bs[b], piece, row, col, value, 0)),
              board |-> Len(bs) + 1]

(***************************************************************************)
(* rules.py: clear_lines.  full_rows and full_cols are ascending lists;    *)
(* zero_loop is the body of lines 59-63 and 65-69 over a list of cells.    *)
(***************************************************************************)
RECURSIVE Filter(_, _, _, _)
Filter(lo, hi, Keep(_), acc) ==
    IF lo > hi THEN acc
    ELSE Filter(lo + 1, hi, Keep, IF Keep(lo) THEN Append(acc, lo) ELSE acc)

full_rows(board) ==
    LET Full(r) == \A c \in 0..(Len(board[1]) - 1) : board[r + 1][c + 1] # 0
    IN  Filter(0, Len(board) - 1, Full, <<>>)

full_cols(board) ==
    LET Full(c) == \A r \in 0..(Len(board) - 1) : board[r + 1][c + 1] # 0
    IN  Filter(0, Len(board[1]) - 1, Full, <<>>)

RECURSIVE zero_loop(_, _, _)
zero_loop(acc, cells, k) ==
    IF k > Len(cells) THEN acc
    ELSE LET r == cells[k][1]
             c == cells[k][2]
         IN  IF acc.grid[r + 1][c + 1] # 0
                THEN zero_loop([grid |-> [acc.grid EXCEPT ![r + 1][c + 1] = 0],
                                cells_cleared |-> acc.cells_cleared + 1], cells, k + 1)
                ELSE zero_loop(acc, cells, k + 1)

RowCells(rows, w) ==
    [n \in 1..(Len(rows) * w) |-> <<rows[((n - 1) \div w) + 1], (n - 1) % w>>]

ColCells(cols, h) ==
    [n \in 1..(Len(cols) * h) |-> <<(n - 1) % h, cols[((n - 1) \div h) + 1]>>]

clear_lines_interleaved(bs, b) ==
    LET board == bs[b]
        h == Len(board)
        w == Len(board[1])
        fr == full_rows(board)
        a1 == zero_loop([grid |-> board, cells_cleared |-> 0], RowCells(fr, w), 1)
        fc == full_cols(a1.grid)
        a2 == zero_loop(a1, ColCells(fc, h), 1)
    IN  IF fr = <<>> /\ fc = <<>>
           THEN [boards |-> bs, board |-> b, cells |-> 0, rows |-> 0, cols |-> 0]
           ELSE [boards |-> Append(bs, a2.grid), board |-> Len(bs) + 1,
                 cells |-> a2.cells_cleared, rows |-> Len(fr), cols |-> Len(fc)]

clear_lines(bs, b) ==
    LET board == bs[b]
        h == Len(board)
        w == Len(board[1])
        fr == full_rows(board)
        fc == full_cols(board)
    IN  IF fr = <<>> /\ fc = <<>>
           THEN [boards |-> bs, board |-> b, cells |-> 0, rows |-> 0, cols |-> 0]
           ELSE LET a1 == zero_loop([grid |-> board, cells_cleared |-> 0],
                                    RowCells(fr, w), 1)
                    a2 == zero_loop(a1, ColCells(fc, h), 1)
                IN  [boards |-> Append(bs, a2.grid), board |-> Len(bs) + 1,
                     cells |-> a2.cells_cleared, rows |-> Len(fr), cols |-> Len(fc)]

(***************************************************************************)
(* Calls of the rule engine on a board.  The board (object 1 of the store), *)
(* the piece, the position and the fill value of a run are drawn by Init;  *)
(* the board a call returned is live until the next call.                  *)
(***************************************************************************)
Live(bs) == <<bs[1]>>

NoRet == [op |-> "none"]

InitRules ==
    /\ boards \in {<<g>> : g \in InitBoards}
    /\ states = <<>>
    /\ args \in [piece : Catalog, row : Rows, col : Cols, value : FillValues]
    /\ ret = NoRet
    /\ nodes = <<>>
    /\ beam = <<>>
    /\ step = 0
    /\ max_depth = 0
    /\ pc = "rules"

CallCanPlace(b) ==
    /\ pc = "rules"
    /\ boards' = Live(boards)
    /\ ret' = [op |-> "can_place", b |-> b,
               result |-> can_place(boards[b], args.piece, args.row, args.col)]
    /\ UNCHANGED <<states, args, nodes, beam, step, max_depth, pc>>

CallPlacePiece(b) ==
    /\ pc = "rules"
    /\ LET r == place_piece(Live(boards), b, args.piece, args.row, args.col, args.value)
       IN  /\ boards' = r.boards
           /\ ret' = [op |-> "place_piece", b |-> b, raised |-> r.raised,
                      board |-> r.board]
    /\ UNCHANGED <<states, args, nodes, beam, step, max_depth, pc>>

CallClearLines(b) ==
    /\ pc = "rules"
    /\ LET r == clear_lines(Live(boards), b)
       IN  /\ boards' = r.boards
           /\ ret' = [op |-> "clear_lines", b |-> b, board |-> r.board,
                      cells |-> r.cells, rows |-> r.rows, cols |-> r.cols]
    /\ UNCHANGED <<states, args, nodes, beam, step, max_depth, pc>>

NextRules ==
    \E b \in DOMAIN Live(boards) :
        \/ CallCanPlace(b)
        \/ CallPlacePiece(b)
        \/ CallClearLines(b)

Spec == InitRules /\ [][NextRules]_vars

(***************************************************************************)
(* Python tuple indexing and slicing: a negative index counts from the     *)
(* end, an index outside -n .. n-1 raises IndexError, slice ends are       *)
(* clamped to 0 .. n.                                                      *)
(***************************************************************************)
py_index_ok(seq, i) == i >= -Len(seq) /\ i < Len(seq)

py_index(seq, i) == IF i < 0 THEN seq[Len(seq) + i + 1] ELSE seq[i + 1]

py_clamp(n, x) ==
    IF x < 0 THEN (IF n + x < 0 THEN 0 ELSE n + x)
    ELSE (IF x > n THEN n ELSE x)

py_slice(seq, start, stop) ==
    SubSeq(seq, py_clamp(Len(seq), start) + 1, py_clamp(Len(seq), stop))

(***************************************************************************)
(* state.py: GameState and _validate_board                                 *)
(***************************************************************************)
MaxHand == 3

validate_board_raises(board) ==
    \/ Len(board) = 0
    \/ Len(board[1]) = 0
    \/ \E r \in 1..Len(board) :
          \/ Len(board[r]) # Len(board[1])
          \/ \E c \in 1..Len(board[r]) : board[r][c] < 0

GameState_any_hand(bs, ss, board, score, hand) ==
    IF score < 0 \/ validate_board_raises(bs[board])
        THEN [raised |-> TRUE, states |-> ss, state |-> 0]
        ELSE [raised |-> FALSE,
              states |-> Append(ss, [board |-> board, score |-> score, hand |-> hand]),
              state |-> Len(ss) + 1]

GameState(bs, ss, board, score, hand) ==
    IF score < 0 \/ Len(hand) > MaxHand \/ validate_board_raises(bs[board])
        THEN [raised |-> TRUE, states |-> ss, state |-> 0]
        ELSE [raised |-> FALSE,
              states |-> Append(ss, [board |-> board, score |-> score, hand |-> hand]),
              state |-> Len(ss) + 1]

(***************************************************************************)
(* rules.py: score_delta, simulate_move, apply_move                        *)
(***************************************************************************)
score_delta_blocks_only(piece, cleared_cells) == block_count(piece)

score_delta(piece, cleared_cells) == block_count(piece) + cleared_cells

NoMoveResult(bs, ss, exc) ==
    [raised |-> TRUE, exc |-> exc, boards |-> bs, states |-> ss, state |-> 0,
     delta |-> 0, cleared_cells |-> 0, rows_cleared |-> 0, cols_cleared |-> 0]

\* Lines 95-99, once clear_lines has returned `cleared`.
simulate_move_cleared(bs, ss, state, piece, hand_index, cleared) ==
    LET delta == score_delta(piece, cleared.cells)
        new_hand == py_slice(state.hand, 0, hand_index)
                    \o py_slice(state.hand, hand_index + 1, Len(state.hand))
        new_state == GameState(cleared.boards, ss, cleared.board,
                               state.score + delta, new_hand)
    IN  IF new_state.raised
           THEN NoMoveResult(bs, ss, "ValueError")
           ELSE [raised |-> FALSE, exc |-> "", boards |-> cleared.boards,
                 states |-> new_state.states, state |-> new_state.state,
                 delta |-> delta, cleared_cells |-> cleared.cells,
                 rows_cleared |-> cleared.rows, cols_cleared |-> cleared.cols]

simulate_move_placed_uncleared(bs, ss, state, piece, hand_index, placed) ==
    IF placed.raised
       THEN NoMoveResult(bs, ss, "ValueError")
       ELSE simulate_move_cleared(bs, ss, state, piece, hand_index,
                                  [boards |-> placed.boards, board |-> placed.board,
                                   cells |-> 0, rows |-> 0, cols |-> 0])

\* Lines 93-99, once place_piece has returned or raised: `placed`.
simulate_move_placed(bs, ss, state, piece, hand_index, placed) ==
    IF placed.raised
       THEN NoMoveResult(bs, ss, "ValueError")
       ELSE simulate_move_cleared(bs, ss, state, piece, hand_index,
                                  clear_lines(placed.boards, placed.board))

simulate_move(bs, ss, s, hand_index, row, col) ==
    IF ~py_index_ok(ss[s].hand, hand_index)
       THEN NoMoveResult(bs, ss, "IndexError")
       ELSE simulate_move_placed(
                bs, ss, ss[s], py_index(ss[s].hand, hand_index), hand_index,
                place_piece(bs, ss[s].board, py_index(ss[s].hand, hand_index),
                            row, col, 1))

\* Line 114: the tuple apply_move builds from the MoveResult r.
apply_move_result(r) ==
    [raised |-> r.raised, exc |-> r.exc, boards |-> r.boards,
     states |-> r.states, state |-> r.state, cleared_cells |-> r.cleared_cells,
     rows_cleared |-> r.rows_cleared, cols_cleared |-> r.cols_cleared]

apply_move(bs, ss, s, hand_index, row, col) ==
    apply_move_result(simulate_move(bs, ss, s, hand_index, row, col))

(***************************************************************************)
(* Calls of simulate_move and apply_move on the states of the store.  The  *)
(* first state and the hand index and position of a run are drawn by Init. *)
(***************************************************************************)
MaxHandInit == 2
MaxStates == 3

InitScores == {1}

Hands == UNION {[1..n -> Catalog] : n \in 0..MaxHandInit}

HandIndices == (-(MaxHandInit + 1))..MaxHandInit

InitMove ==
    /\ boards \in {<<g>> : g \in PlayBoards}
    /\ states \in {<<[board |-> 1, score |-> sc, hand |-> h]>> :
                      sc \in InitScores, h \in Hands}
    /\ args \in [hand_index : HandIndices, row : Rows, col : Cols]
    /\ ret = NoRet
    /\ nodes = <<>>
    /\ beam = <<>>
    /\ step = 0
    /\ max_depth = 0
    /\ pc = "move"

\* The call returns r: its new objects join the store, its values go to ret.
MoveReturns(op, s, r) ==
    /\ boards' = r.boards
    /\ states' = r.states
    /\ ret' = [o \in {"op", "s"} \cup (DOMAIN r \ {"boards", "states"}) |->
                 IF o = "op" THEN op ELSE IF o = "s" THEN s ELSE r[o]]

CallSimulateMove(s) ==
    /\ pc = "move"
    /\ Len(states) < MaxStates
    /\ MoveReturns("simulate_move", s,
                   simulate_move(boards, states, s, args.hand_index, args.row, args.col))
    /\ UNCHANGED <<args, nodes, beam, step, max_depth, pc>>

CallApplyMove(s) ==
    /\ pc = "move"
    /\ Len(states) < MaxStates
    /\ MoveReturns("apply_move", s,
                   apply_move(boards, states, s, args.hand_index, args.row, args.col))
    /\ UNCHANGED <<args, nodes, beam, step, max_depth, pc>>

NextMove ==
    \E s \in DOMAIN states :
        \/ CallSimulateMove(s)
        \/ CallApplyMove(s)

SpecMove == InitMove /\ [][NextMove]_vars

(***************************************************************************)
(* moves.py: Move and legal_moves.  The moves of one piece are the         *)
(* positions of its bounding box, row by row, that pass can_place.         *)
(***************************************************************************)
Move(piece_index, row, col) == [piece_index |-> piece_index, row |-> row, col |-> col]

NoMove == Move(-1, -1, -1)

piece_moves_column_major(board, piece, piece_index) ==
    LET max_row == Len(board) - height(piece)
        max_col == Len(board[1]) - width(piece)
    IN  IF max_row < 0 \/ max_col < 0 THEN <<>>
        ELSE LET positions ==
                     [n \in 1..((max_row + 1) * (max_col + 1)) |->
                         Move(piece_index, (n - 1) % (max_row + 1),
                              (n - 1) \div (max_row + 1))]
             IN  SelectSeq(positions,
                           LAMBDA m : can_place(board, piece, m.row, m.col))

piece_moves(board, piece, piece_index) ==
    LET max_row == Len(board) - height(piece)
        max_col == Len(board[1]) - width(piece)
    IN  IF max_row < 0 \/ max_col < 0 THEN <<>>
        ELSE LET positions ==
                     [n \in 1..((max_row + 1) * (max_col + 1)) |->
                         Move(piece_index, (n - 1) \div (max_col + 1),
                              (n - 1) % (max_col + 1))]
             IN  SelectSeq(positions,
                           LAMBDA m : can_place(board, piece, m.row, m.col))

RECURSIVE legal_moves_from(_, _, _)
legal_moves_from(board, hand, piece_index) ==
    IF piece_index >= Len(hand) THEN <<>>
    ELSE piece_moves(board, hand[piece_index + 1], piece_index)
         \o legal_moves_from(board, hand, piece_index + 1)

legal_moves_first_piece_only(bs, state) ==
    IF state.hand = <<>> THEN <<>>
    ELSE piece_moves(bs[state.board], state.hand[1], 0)

legal_moves(bs, state) == legal_moves_from(bs[state.board], state.hand, 0)

any_legal_move(bs, state) == legal_moves(bs, state) # <<>>

(***************************************************************************)
(* heuristics.py.  Weights are in hundredths (0.10 is 10) and evaluate     *)
(* returns hundredths, so the weighted sum is exact integer arithmetic.    *)
(***************************************************************************)
HeuristicWeights(m, n, r, f, e) ==
    [mobility |-> m, near_full_lines |-> n, roughness |-> r, fragments |-> f,
     enclosed_empties |-> e]

DEFAULT_WEIGHTS == HeuristicWeights(10, 100, -5, 0, 0)

mobility_distinct_pieces(bs, state) ==
    Cardinality({<<state.hand[m.piece_index + 1], m.row, m.col>> :
                    m \in {legal_moves(bs, state)[k] :
                              k \in 1..Len(legal_moves(bs, state))}})

mobility(bs, state) == Len(legal_moves(bs, state))

near_full_lines_below_hi(board, lo, hi) ==
    LET height_ == Len(board)
        width_ == Len(board[1])
        RowFilled(r) == Cardinality({c \in 1..width_ : board[r][c] # 0})
        ColFilled(c) == Cardinality({r \in 1..height_ : board[r][c] # 0})
    IN  Cardinality({r \in 1..height_ : lo <= RowFilled(r) /\ RowFilled(r) < hi})
        + Cardinality({c \in 1..width_ : lo <= ColFilled(c) /\ ColFilled(c) < hi})

near_full_lines(board, lo, hi) ==
    LET height_ == Len(board)
        width_ == Len(board[1])
        RowFilled(r) == Cardinality({c \in 1..width_ : board[r][c] # 0})
        ColFilled(c) == Cardinality({r \in 1..height_ : board[r][c] # 0})
    IN  Cardinality({r \in 1..height_ : lo <= RowFilled(r) /\ RowFilled(r) <= hi})
        + Cardinality({c \in 1..width_ : lo <= ColFilled(c) /\ ColFilled(c) <= hi})

roughness_rows_only(board) ==
    Cardinality({rc \in (1..Len(board)) \X (1..(Len(board[1]) - 1)) :
        (board[rc[1]][rc[2]] # 0) # (board[rc[1]][rc[2] + 1] # 0)})

roughness(board) ==
    LET height_ == Len(board)
        width_ == Len(board[1])
    IN  Cardinality({rc \in (1..height_) \X (1..(width_ - 1)) :
            (board[rc[1]][rc[2]] # 0) # (board[rc[1]][rc[2] + 1] # 0)})
        + Cardinality({rc \in (1..(height_ - 1)) \X (1..width_) :
            (board[rc[1]][rc[2]] # 0) # (board[rc[1] + 1][rc[2]] # 0)})

EmptyCells(board) ==
    {rc \in (1..Len(board)) \X (1..Len(board[1])) : board[rc[1]][rc[2]] = 0}

Neighbours(rc) ==
    {<<rc[1] - 1, rc[2]>>, <<rc[1] + 1, rc[2]>>, <<rc[1], rc[2] - 1>>, <<rc[1], rc[2] + 1>>}

\* The empty cells a breadth-first search from `reached` visits.
RECURSIVE flood(_, _)
flood(empties, reached) ==
    LET more == {rc \in empties \ reached : Neighbours(rc) \cap reached # {}}
    IN  IF more = {} THEN reached ELSE flood(empties, reached \cup more)

RECURSIVE count_fragments(_, _)
count_fragments(empties, left) ==
    IF left = {} THEN 0
    ELSE LET seed == CHOOSE rc \in left : TRUE
         IN  1 + count_fragments(empties, left \ flood(empties, {seed}))

empty_fragments(board) == count_fragments(EmptyCells(board), EmptyCells(board))

enclosed_empties_off_border(board) ==
    Cardinality({rc \in EmptyCells(board) :
        /\ rc[1] # 1 /\ rc[1] # Len(board)
        /\ rc[2] # 1 /\ rc[2] # Len(board[1])})

enclosed_empties(board) ==
    LET empties == EmptyCells(board)
        border == {rc \in empties : \/ rc[1] = 1 \/ rc[1] = Len(board)
                                    \/ rc[2] = 1 \/ rc[2] = Len(board[1])}
    IN  Cardinality(empties \ flood(empties, border))

evaluate(bs, state, weights) ==
    LET board == bs[state.board]
    IN  100 * state.score
        + weights.mobility * mobility(bs, state)
        + weights.near_full_lines * near_full_lines(board, 8, 9)
        + weights.roughness * roughness(board)
        + (IF weights.fragments # 0
              THEN weights.fragments * empty_fragments(board) ELSE 0)
        + (IF weights.enclosed_empties # 0
              THEN weights.enclosed_empties * enclosed_empties(board) ELSE 0)

(***************************************************************************)
(* beam_search.py.  Node i of the arena (0-based) is nodes[i + 1]; `beam`  *)
(* and `candidates` hold 0-based node indices.                             *)
(***************************************************************************)
Node(state, parent, move, value) ==
    [state |-> state, parent |-> parent, move |-> move, value |-> value]

\* Lines 61-71: the children of one frontier node, move by move.
\* Lines 65-71 for one move, once simulate_move has returned or raised: sim.
add_child(acc, node_index, move, weights, sim) ==
    IF sim.raised
       THEN [acc EXCEPT !.raised = TRUE]
       ELSE [raised |-> FALSE,
             boards |-> sim.boards,
             states |-> sim.states,
             nodes |-> Append(acc.nodes,
                         Node(sim.state, node_index, move,
                              evaluate(sim.boards, sim.states[sim.state], weights))),
             candidates |-> Append(acc.candidates, Len(acc.nodes))]

RECURSIVE expand_node(_, _, _, _, _)
expand_node(acc, node_index, moves, weights, k) ==
    IF k > Len(moves) \/ acc.raised THEN acc
    ELSE expand_node(
            add_child(acc, node_index, moves[k], weights,
                      simulate_move(acc.boards, acc.states,
                                    acc.nodes[node_index + 1].state,
                                    moves[k].piece_index, moves[k].row, moves[k].col)),
            node_index, moves, weights, k + 1)

\* Lines 61-71 for the first node of the frontier only.
expand_beam_first_node(acc, frontier, weights, k) ==
    IF k > Len(frontier) THEN acc
    ELSE expand_node(acc, frontier[1],
                     legal_moves(acc.boards,
                                 acc.states[acc.nodes[frontier[1] + 1].state]),
                     weights, 1)

RECURSIVE expand_beam(_, _, _, _)
expand_beam(acc, frontier, weights, k) ==
    IF k > Len(frontier) \/ acc.raised THEN acc
    ELSE expand_beam(
            expand_node(acc, frontier[k],
                        legal_moves(acc.boards,
                                    acc.states[acc.nodes[frontier[k] + 1].state]),
                        weights, 1),
            frontier, weights, k + 1)

\* Lexicographic order of the integer tuples used as sort keys.
RECURSIVE key_less(_, _)
key_less(a, b) ==
    IF a = <<>> \/ b = <<>> THEN FALSE
    ELSE IF Head(a) # Head(b) THEN Head(a) < Head(b)
    ELSE key_less(Tail(a), Tail(b))

sort_key(ss, ns, i) ==
    <<ns[i + 1].value, ss[ns[i + 1].state].score, -Len(ss[ns[i + 1].state].hand)>>

best_key(ss, ns, i) == <<ns[i + 1].value, ss[ns[i + 1].state].score>>

sort_desc_unsorted(ss, ns, candidates, k) == SubSeq(candidates, 1, k)

\* list.sort(key, reverse=True) is stable: among equal keys the earlier
\* element stays first.  Element k is inserted behind every element whose key
\* is not smaller than its own.
RECURSIVE sort_desc(_, _, _, _)
sort_desc(ss, ns, candidates, k) ==
    IF k = 0 THEN <<>>
    ELSE LET sorted == sort_desc(ss, ns, candidates, k - 1)
             x == candidates[k]
             ahead == Cardinality({j \in 1..Len(sorted) :
                          ~key_less(sort_key(ss, ns, sorted[j]), sort_key(ss, ns, x))})
         IN  SubSeq(sorted, 1, ahead) \o <<x>> \o SubSeq(sorted, ahead + 1, Len(sorted))

max_by_key_by_address(ss, ns, frontier) ==
    LET best == {k \in 1..Len(frontier) :
                    \A j \in 1..Len(frontier) :
                        ~key_less(best_key(ss, ns, frontier[k]),
                                  best_key(ss, ns, frontier[j]))}
        lowest == CHOOSE k \in best : \A j \in best : k <= j
        highest == CHOOSE k \in best : \A j \in best : k >= j
    IN  IF Len(ss) % 3 = 0 THEN frontier[highest] ELSE frontier[lowest]

max_by_key_last(ss, ns, frontier) == frontier[Len(frontier)]

\* max(beam, key): the first element whose key no element exceeds.
max_by_key(ss, ns, frontier) ==
    LET first == CHOOSE k \in 1..Len(frontier) :
                    /\ \A j \in 1..Len(frontier) :
                          ~key_less(best_key(ss, ns, frontier[k]),
                                    best_key(ss, ns, frontier[j]))
                    /\ \A j \in 1..(k - 1) :
                          key_less(best_key(ss, ns, frontier[j]),
                                   best_key(ss, ns, frontier[k]))
    IN  frontier[first]

RECURSIVE collect_moves(_, _)
collect_moves(ns, i) ==
    IF i = -1 THEN <<>>
    ELSE (IF ns[i + 1].move # NoMove THEN <<ns[i + 1].move>> ELSE <<>>)
         \o collect_moves(ns, ns[i + 1].parent)

reverse(seq) == [k \in 1..Len(seq) |-> seq[Len(seq) + 1 - k]]

reconstruct_moves_unreversed(ns, leaf_index) == collect_moves(ns, leaf_index)

reconstruct_moves(ns, leaf_index) == reverse(collect_moves(ns, leaf_index))

(***************************************************************************)
(* A planner call.  The initial state (state 1 of the store) and the       *)
(* arguments beam_width, depth and weights are drawn by Init; depth is     *)
(* [given |-> FALSE] for None.  BeamStart is lines 46-56, BeamStep one     *)
(* pass of the loop of lines 58-85, BeamFinish lines 87-89 and             *)
(* SelectBestMove line 104.                                                *)
(***************************************************************************)
MaxBeamWidth == 2
MaxDepth == 2

Depths ==
    {[given |-> FALSE, value |-> 0]}
    \cup {[given |-> TRUE, value |-> v] : v \in -1..MaxDepth}

SCORE_ONLY_WEIGHTS == HeuristicWeights(0, 0, 0, 0, 0)

WeightChoices == {DEFAULT_WEIGHTS, SCORE_ONLY_WEIGHTS}

InitBeam ==
    /\ boards \in {<<g>> : g \in PlayBoards}
    /\ states \in {<<[board |-> 1, score |-> 0, hand |-> h]>> : h \in Hands}
    /\ args \in [beam_width : 0..MaxBeamWidth, depth : Depths, weights : WeightChoices]
    /\ ret = NoRet
    /\ nodes = <<>>
    /\ beam = <<>>
    /\ step = 0
    /\ max_depth = 0
    /\ pc = "start"

BeamStartAnyDepth ==
    /\ pc = "start"
    /\ IF args.beam_width <= 0
          THEN /\ pc' = "raised"
               /\ ret' = [op |-> "beam_search_best_sequence", raised |-> TRUE,
                          seq |-> <<>>]
               /\ UNCHANGED <<nodes, beam, max_depth>>
          ELSE /\ pc' = "loop"
               /\ max_depth' = (IF args.depth.given THEN args.depth.value
                                                    ELSE Len(states[1].hand))
               /\ nodes' = <<Node(1, -1, NoMove,
                                  evaluate(boards, states[1], args.weights))>>
               /\ beam' = <<0>>
               /\ UNCHANGED ret
    /\ UNCHANGED <<boards, states, args, step>>

BeamStart ==
    /\ pc = "start"
    /\ IF args.beam_width <= 0
          THEN /\ pc' = "raised"
               /\ ret' = [op |-> "beam_search_best_sequence", raised |-> TRUE,
                          seq |-> <<>>]
               /\ UNCHANGED <<nodes, beam, max_depth>>
       ELSE LET md == IF args.depth.given THEN args.depth.value
                                           ELSE Len(states[1].hand)
            IN  IF md < 0
                   THEN /\ pc' = "raised"
                        /\ ret' = [op |-> "beam_search_best_sequence",
                                   raised |-> TRUE, seq |-> <<>>]
                        /\ UNCHANGED <<nodes, beam, max_depth>>
                   ELSE /\ pc' = "loop"
                        /\ max_depth' = md
                        /\ nodes' = <<Node(1, -1, NoMove,
                                           evaluate(boards, states[1], args.weights))>>
                        /\ beam' = <<0>>
                        /\ UNCHANGED ret
    /\ UNCHANGED <<boards, states, args, step>>

\* Lines 73-85 with `continue` in place of `break`.
BeamStepEndsNoBreak(acc) ==
    IF acc.raised
       THEN /\ pc' = "raised"
            /\ ret' = [op |-> "beam_search_best_sequence", raised |-> TRUE,
                       seq |-> <<>>]
            /\ UNCHANGED <<boards, states, nodes, beam, step>>
    ELSE IF acc.candidates = <<>>
       THEN /\ step' = step + 1
            /\ UNCHANGED <<boards, states, nodes, beam, pc, ret>>
    ELSE /\ boards' = acc.boards
         /\ states' = acc.states
         /\ nodes' = acc.nodes
         /\ beam' = SubSeq(sort_desc(acc.states, acc.nodes, acc.candidates,
                                     Len(acc.candidates)),
                           1, IF args.beam_width < Len(acc.candidates)
                                 THEN args.beam_width ELSE Len(acc.candidates))
         /\ step' = step + 1
         /\ UNCHANGED <<pc, ret>>

\* Lines 73-85, once the loops of lines 61-71 have built acc.
BeamStepEnds(acc) ==
    IF acc.raised
       THEN /\ pc' = "raised"
            /\ ret' = [op |-> "beam_search_best_sequence", raised |-> TRUE,
                       seq |-> <<>>]
            /\ UNCHANGED <<boards, states, nodes, beam, step>>
    ELSE IF acc.candidates = <<>>
       THEN /\ pc' = "select"
            /\ UNCHANGED <<boards, states, nodes, beam, step, ret>>
    ELSE /\ boards' = acc.boards
         /\ states' = acc.states
         /\ nodes' = acc.nodes
         /\ beam' = SubSeq(sort_desc(acc.states, acc.nodes, acc.candidates,
                                     Len(acc.candidates)),
                           1, IF args.beam_width < Len(acc.candidates)
                                 THEN args.beam_width ELSE Len(acc.candidates))
         /\ step' = step + 1
         /\ UNCHANGED <<pc, ret>>

BeamStep ==
    /\ pc = "loop"
    /\ step < max_depth
    /\ BeamStepEnds(expand_beam([raised |-> FALSE, boards |-> boards,
                                 states |-> states, nodes |-> nodes,
                                 candidates |-> <<>>],
                                beam, args.weights, 1))
    /\ UNCHANGED <<args, max_depth>>

\* Lines 87-89 with the best node taken over the whole arena.
BeamFinishAnyNode ==
    /\ \/ pc = "select"
       \/ pc = "loop" /\ step >= max_depth
    /\ ret' = [op |-> "beam_search_best_sequence", raised |-> FALSE,
               seq |-> reconstruct_moves(
                          nodes,
                          max_by_key(states, nodes,
                                     [k \in 1..Len(nodes) |-> k - 1]))]
    /\ pc' = "done"
    /\ UNCHANGED <<boards, states, args, nodes, beam, step, max_depth>>

BeamFinish ==
    /\ \/ pc = "select"
       \/ pc = "loop" /\ step >= max_depth
    /\ LET best == max_by_key(states, nodes, beam)
       IN  ret' = [op |-> "beam_search_best_sequence", raised |-> FALSE,
                   seq |-> reconstruct_moves(nodes, best)]
    /\ pc' = "done"
    /\ UNCHANGED <<boards, states, args, nodes, beam, step, max_depth>>

SelectBestMove ==
    /\ pc = "done"
    /\ ret' = [op |-> "select_best_move", raised |-> FALSE, seq |-> ret.seq,
               move |-> IF ret.seq # <<>> THEN ret.seq[1] ELSE NoMove]
    /\ pc' = "first"
    /\ UNCHANGED <<boards, states, args, nodes, beam, step, max_depth>>

NextBeam == BeamStart \/ BeamStep \/ BeamFinish \/ SelectBestMove

SpecBeam == InitBeam /\ [][NextBeam]_vars

\* One pass of the loop of lines 58-85 as the loop's control sees it: a pass
\* is due while pc = "loop" and step < max_depth, and it ends the loop, raises
\* or counts a step.  BeamStep is enabled exactly when a pass is due.
LoopPass ==
    /\ pc = "loop"
    /\ step < max_depth
    /\ pc' \in {"loop", "select", "raised"}
    /\ step' \in {step, step + 1}

\* Planner calls with a beam wide enough to keep every child of every step.
WideBeam == 32

InitWide ==
    /\ boards \in {<<g>> : g \in PlayBoards}
    /\ states \in {<<[board |-> 1, score |-> 0, hand |-> h]>> : h \in Hands}
    /\ args \in [beam_width : {WideBeam}, depth : Depths, weights : WeightChoices]
    /\ ret = NoRet
    /\ nodes = <<>>
    /\ beam = <<>>
    /\ step = 0
    /\ max_depth = 0
    /\ pc = "start"

SpecWide == InitWide /\ [][NextBeam]_vars

\* A call runs to completion: the checks of lines 46-56, each pass of the loop
\* that is due and lines 87-89 are executed.
SpecBeamLive ==
    /\ InitBeam
    /\ [][NextBeam]_vars
    /\ WF_vars(BeamStart)
    /\ WF_<<pc, step>>(LoopPass)
    /\ WF_vars(BeamFinish)

(***************************************************************************)
(* Vocabulary of the properties.                                           *)
(***************************************************************************)
Occupied(piece) ==
    {ij \in (0..(height(piece) - 1)) \X (0..(width(piece) - 1)) :
        piece.shape[ij[1] + 1][ij[2] + 1] = 1}

OnBoard(board, r, c) == r >= 0 /\ r < Len(board) /\ c >= 0 /\ c < Len(board[1])

Blocked(board, piece, row, col) ==
    \E ij \in Occupied(piece) :
        \/ ~OnBoard(board, row + ij[1], col + ij[2])
        \/ board[row + ij[1] + 1][col + ij[2] + 1] # 0

Covered(piece, row, col, r, c) ==
    \E ij \in Occupied(piece) : r = row + ij[1] /\ c = col + ij[2]

SameShape(g1, g2) ==
    /\ Len(g1) = Len(g2)
    /\ \A r \in 1..Len(g1) : Len(g1[r]) = Len(g2[r])

(***************************************************************************)
(* Properties of the planner.  State 1 and its board are the initial state *)
(* of the call.                                                            *)
(***************************************************************************)
Returned == pc \in {"done", "first"}

\* Replaying seq from state s with simulate_move: every move's piece_index is
\* inside the current hand, can_place holds for it, and the step does not raise.
RECURSIVE replay_legal(_, _, _, _, _)
replay_legal(bs, ss, s, seq, k) ==
    IF k > Len(seq) THEN TRUE
    ELSE LET m == seq[k]
             st == ss[s]
         IN  /\ m.piece_index >= 0
             /\ m.piece_index < Len(st.hand)
             /\ can_place(bs[st.board], st.hand[m.piece_index + 1], m.row, m.col)
             /\ LET sim == simulate_move(bs, ss, s, m.piece_index, m.row, m.col)
                IN  /\ ~sim.raised
                    /\ replay_legal(sim.boards, sim.states, sim.state, seq, k + 1)

\* Some piece of the hand can be placed with its bounding box on the board.
FitsSomewhere(board, hand) ==
    \E i \in 1..Len(hand) :
        \E row \in 0..(Len(board) - height(hand[i])),
           col \in 0..(Len(board[1]) - width(hand[i])) :
            can_place(board, hand[i], row, col)

FullyOccupied(board) ==
    \A r \in 1..Len(board), c \in 1..Len(board[1]) : board[r][c] # 0

\* C1: every move of the sequence the planner returns is legal in the state
\* that precedes it when the sequence is replayed from the initial state.
C1_ReturnedSequenceReplaysLegally ==
    Returned => replay_legal(boards, states, 1, ret.seq, 1)

C1_Witness ==
    /\ pc = "done"
    /\ Len(ret.seq) = 2
    /\ ret.seq[1].piece_index = 1
    /\ args.beam_width = 1

C3_FullBoardEmptyForEveryHand ==
    (Returned /\ FullyOccupied(boards[1]))
        => (ret.seq = <<>> /\ (pc = "first" => ret.move = NoMove))

\* C3 as amended: on a fully occupied board the planner returns the empty
\* sequence and select_best_move no move, for every hand whose pieces each
\* have at least one occupied cell.
C3_FullBoardEmptyForSolidHands ==
    (/\ Returned
     /\ FullyOccupied(boards[1])
     /\ \A i \in 1..Len(states[1].hand) : block_count(states[1].hand[i]) >= 1)
        => (ret.seq = <<>> /\ (pc = "first" => ret.move = NoMove))

C3_Witness ==
    /\ pc = "first"
    /\ FullyOccupied(boards[1])
    /\ Len(boards[1]) = 2
    /\ states[1].hand = <<single, pad_h>>
    /\ args.beam_width = 2
    /\ args.depth.given
    /\ args.depth.value = 2
    /\ ret.move = NoMove

(***************************************************************************)
(* Properties of simulate_move and apply_move.                             *)
(***************************************************************************)
MoveCall(r) == r.op \in {"simulate_move", "apply_move"}

\* C4: simulate_move raises, and returns no state, when hand_index is outside
\* 0 .. len(hand)-1, every negative index included, or when can_place is false
\* for the piece at that index.
C4_BadIndexOrPlacementRaises ==
    (/\ ret.op = "simulate_move"
     /\ LET st == states[ret.s]
        IN  \/ args.hand_index < 0
            \/ args.hand_index >= Len(st.hand)
            \/ ~can_place(boards[st.board], st.hand[args.hand_index + 1],
                          args.row, args.col))
        => (ret.raised /\ ret.state = 0)

\* C5: for a legal placement (index inside the hand, can_place true) the new
\* state's score is the old score plus block_count plus the cleared cells, its
\* board is clear_lines of place_piece of the old board, and its hand is the
\* old hand without the element at the index, the others in order;
\* simulate_move also returns that delta, apply_move the same state and counts.
C5_MoveResultIsPlaceClearScore ==
    [][(/\ MoveCall(ret')
        /\ args.hand_index >= 0
        /\ args.hand_index < Len(states[ret'.s].hand)
        /\ can_place(boards[states[ret'.s].board],
                     states[ret'.s].hand[args.hand_index + 1], args.row, args.col))
       => LET st == states[ret'.s]
              piece == st.hand[args.hand_index + 1]
              placed == place_piece(boards, st.board, piece, args.row, args.col, 1)
              cleared == clear_lines(placed.boards, placed.board)
              blocks == Cardinality(Occupied(piece))
          IN  /\ ~ret'.raised
              /\ ret'.state = Len(states) + 1
              /\ Len(states') = Len(states) + 1
              /\ LET new == states'[ret'.state]
                 IN  /\ new.score = st.score + blocks + cleared.cells
                     /\ boards'[new.board] = cleared.boards[cleared.board]
                     /\ Len(new.hand) = Len(st.hand) - 1
                     /\ \A k \in 1..Len(new.hand) :
                           new.hand[k] = IF k <= args.hand_index
                                            THEN st.hand[k] ELSE st.hand[k + 1]
              /\ ret'.op = "simulate_move" => ret'.delta = blocks + cleared.cells
              /\ ret'.cleared_cells = cleared.cells
              /\ ret'.rows_cleared = cleared.rows
              /\ ret'.cols_cleared = cleared.cols]_vars

C5_Witness ==
    /\ ret.op = "simulate_move"
    /\ ~ret.raised
    /\ ret.cleared_cells = 3
    /\ args.hand_index = 0
    /\ Len(states[ret.s].hand) = 2
    /\ states[ret.s].hand[1] # states[ret.s].hand[2]

\* C6: a call of simulate_move or apply_move, successful or failing, changes
\* no existing object: every state of the store keeps its board, score and
\* hand, and every board of the store keeps its cells.
C6_MoveCallsLeaveObjectsUnchanged ==
    [][/\ \A s \in DOMAIN states :
             /\ s \in DOMAIN states'
             /\ states'[s] = states[s]
       /\ \A b \in DOMAIN boards :
             /\ b \in DOMAIN boards'
             /\ boards'[b] = boards[b]]_vars

C6_Witness ==
    /\ ret.op = "apply_move"
    /\ ~ret.raised
    /\ Len(states) = 3
    /\ ret.s = 2
    /\ boards[states[3].board] # boards[states[2].board]
    /\ boards[states[2].board] # boards[states[1].board]

(***************************************************************************)
(* Properties of the rule engine.                                          *)
(***************************************************************************)
\* C7: can_place is false exactly when some occupied cell of the piece maps
\* outside the board or onto a non-zero cell, for every board, piece, row and
\* column, negative and too-large coordinates and the piece without occupied
\* cells included.
C7_CanPlaceIffNoOccupiedCellBlocked ==
    ret.op = "can_place" =>
        ret.result = ~Blocked(boards[ret.b], args.piece, args.row, args.col)

C7_Witness ==
    /\ ret.op = "can_place"
    /\ ret.result
    /\ args.piece = pad_h
    /\ args.col = -1

\* C8: a place_piece call whose arguments fail can_place raises, yields no
\* board and writes no cell: the store of boards is left as it was.
C8_IllegalPlacementRaises ==
    [][(/\ ret'.op = "place_piece"
        /\ ~can_place(boards[ret'.b], args.piece, args.row, args.col))
       => (/\ ret'.raised
           /\ ret'.board = NoBoard
           /\ boards'[ret'.b] = boards[ret'.b]
           /\ Len(boards') = 1)]_vars

C8_Witness ==
    /\ ret.op = "place_piece"
    /\ ret.raised
    /\ args.row = 0
    /\ args.col = 0
    /\ args.piece = single

\* C9: a place_piece call whose arguments pass can_place returns a board of
\* the same dimensions that holds the non-zero fill value under every occupied
\* cell of the piece and the input's cell everywhere else; the input board is
\* unchanged.
C9_PlacementWritesExactlyThePiece ==
    [][(/\ ret'.op = "place_piece"
        /\ can_place(boards[ret'.b], args.piece, args.row, args.col))
       => (/\ ~ret'.raised
           /\ ret'.board \in DOMAIN boards'
           /\ args.value # 0
           /\ boards'[ret'.b] = boards[ret'.b]
           /\ LET in == boards[ret'.b]
                  out == boards'[ret'.board]
              IN  /\ SameShape(in, out)
                  /\ \A r \in 0..(Len(in) - 1), c \in 0..(Len(in[1]) - 1) :
                        out[r + 1][c + 1] =
                            IF Covered(args.piece, args.row, args.col, r, c)
                                THEN args.value
                                ELSE in[r + 1][c + 1])]_vars

C9_Witness ==
    /\ ret.op = "place_piece"
    /\ ~ret.raised
    /\ args.value = 2
    /\ args.piece = line2_v
    /\ boards[ret.board] # boards[ret.b]

\* C10: clear_lines finds the full rows and columns on its input board and
\* clears them at once: a cell of the result is 0 if its row or column was
\* full on the input and is the input's cell otherwise; it reports R rows,
\* C columns and R*W + C*H - R*C cells; with R = C = 0 it returns the input
\* board itself and (0, 0, 0).
C10_ClearLinesSimultaneous ==
    [][ret'.op = "clear_lines"
       => LET in == boards[ret'.b]
              out == boards'[ret'.board]
              H == Len(in)
              W == Len(in[1])
              FR == {r \in 0..(H - 1) : \A c \in 0..(W - 1) : in[r + 1][c + 1] # 0}
              FC == {c \in 0..(W - 1) : \A r \in 0..(H - 1) : in[r + 1][c + 1] # 0}
              R == Cardinality(FR)
              C == Cardinality(FC)
          IN  /\ SameShape(in, out)
              /\ \A r \in 0..(H - 1), c \in 0..(W - 1) :
                    out[r + 1][c + 1] =
                        IF r \in FR \/ c \in FC THEN 0 ELSE in[r + 1][c + 1]
              /\ ret'.rows = R
              /\ ret'.cols = C
              /\ ret'.cells = R * W + C * H - R * C
              /\ (R = 0 /\ C = 0) => (ret'.board = ret'.b /\ ret'.cells = 0 /\ Len(boards') = 1)]_vars

C10_Witness ==
    /\ ret.op = "clear_lines"
    /\ ret.rows = 1
    /\ ret.cols = 1
    /\ ret.cells = 3
    /\ Len(boards[ret.b]) = 2

(***************************************************************************)
(* Calls of the move enumerator and of the evaluator on one state.  The    *)
(* state (board, score, hand) of a run is drawn by Init; lo, hi and the    *)
(* weights are arguments of the single call a run makes.  Besides the      *)
(* small boards the runs start from the two 10 x 10 boards of the tests.   *)
(***************************************************************************)
BOARD_SIZE == 10

empty_board(size) == [r \in 1..size |-> [c \in 1..size |-> 0]]

\* test_near_full_lines_counts_9_filled: nine filled cells in row 0.
nine_in_row ==
    [r \in 1..BOARD_SIZE |-> [c \in 1..BOARD_SIZE |->
        IF r = 1 /\ c <= BOARD_SIZE - 1 THEN 1 ELSE 0]]

TestBoards == {empty_board(BOARD_SIZE), nine_in_row}

EvalScores == {0, 2}

Bands == {<<8, 9>>} \cup ((0..MaxCols) \X (0..MaxCols))

ALL_WEIGHTS == HeuristicWeights(10, 100, -5, -20, -30)

EvalWeights == {DEFAULT_WEIGHTS, SCORE_ONLY_WEIGHTS, ALL_WEIGHTS}

InitEval ==
    /\ boards \in {<<g>> : g \in InitBoards \cup TestBoards}
    /\ states \in {<<[board |-> 1, score |-> sc, hand |-> h]>> :
                      sc \in EvalScores, h \in Hands}
    /\ args = <<>>
    /\ ret = NoRet
    /\ nodes = <<>>
    /\ beam = <<>>
    /\ step = 0
    /\ max_depth = 0
    /\ pc = "eval"

CallLegalMoves ==
    /\ pc = "eval"
    /\ ret' = [op |-> "legal_moves", moves |-> legal_moves(boards, states[1])]
    /\ pc' = "returned"
    /\ UNCHANGED <<boards, states, args, nodes, beam, step, max_depth>>

CallAnyLegalMove ==
    /\ pc = "eval"
    /\ ret' = [op |-> "any_legal_move", result |-> any_legal_move(boards, states[1])]
    /\ pc' = "returned"
    /\ UNCHANGED <<boards, states, args, nodes, beam, step, max_depth>>

CallMobility ==
    /\ pc = "eval"
    /\ ret' = [op |-> "mobility", result |-> mobility(boards, states[1])]
    /\ pc' = "returned"
    /\ UNCHANGED <<boards, states, args, nodes, beam, step, max_depth>>

CallNearFullLines ==
    /\ pc = "eval"
    /\ \E band \in Bands :
          ret' = [op |-> "near_full_lines", lo |-> band[1], hi |-> band[2],
                  result |-> near_full_lines(boards[states[1].board],
                                             band[1], band[2])]
    /\ pc' = "returned"
    /\ UNCHANGED <<boards, states, args, nodes, beam, step, max_depth>>

CallRoughness ==
    /\ pc = "eval"
    /\ ret' = [op |-> "roughness", result |-> roughness(boards[states[1].board])]
    /\ pc' = "returned"
    /\ UNCHANGED <<boards, states, args, nodes, beam, step, max_depth>>

CallEvaluate ==
    /\ pc = "eval"
    /\ \E weights \in EvalWeights :
          ret' = [op |-> "evaluate", weights |-> weights,
                  result |-> evaluate(boards, states[1], weights)]
    /\ pc' = "returned"
    /\ UNCHANGED <<boards, states, args, nodes, beam, step, max_depth>>

NextEval ==
    \/ CallLegalMoves
    \/ CallAnyLegalMove
    \/ CallMobility
    \/ CallNearFullLines
    \/ CallRoughness
    \/ CallEvaluate

SpecEval == InitEval /\ [][NextEval]_vars

(***************************************************************************)
(* Properties of the move enumerator.                                      *)
(***************************************************************************)
\* The moves of a state whose piece lies with its whole bounding box on the
\* board and passes can_place.
BoxMoves(board, hand) ==
    {m \in [piece_index : 0..(Len(hand) - 1), row : 0..(Len(board) - 1),
            col : 0..(Len(board[1]) - 1)] :
        /\ m.row <= Len(board) - height(hand[m.piece_index + 1])
        /\ m.col <= Len(board[1]) - width(hand[m.piece_index + 1])
        /\ can_place(board, hand[m.piece_index + 1], m.row, m.col)}

move_before(a, b) ==
    \/ a.piece_index < b.piece_index
    \/ a.piece_index = b.piece_index /\ a.row < b.row
    \/ a.piece_index = b.piece_index /\ a.row = b.row /\ a.col < b.col

Solid(piece) ==
    \A i \in 1..Len(piece.shape) : \A j \in 1..Len(piece.shape[i]) :
        piece.shape[i][j] = 1

\* C11 as claimed: legal_moves yields the move (i, row, col) for every hand
\* index i and every position (row, col), on the board or beside it, at which
\* can_place(board, hand[i], row, col) is true, whatever the shape of the piece.
C11_LegalMovesYieldsEveryPlaceablePosition ==
    ret.op = "legal_moves" =>
        LET hand == states[1].hand
            board == boards[states[1].board]
        IN  \A i \in 0..(Len(hand) - 1) :
            \A row \in -1..Len(board), col \in -1..Len(board[1]) :
                can_place(board, hand[i + 1], row, col) =>
                    \E k \in 1..Len(ret.moves) : ret.moves[k] = Move(i, row, col)

\* C12: the sequence legal_moves yields holds exactly the moves whose bounding
\* box lies on the board and which pass can_place, in strictly ascending order
\* of (piece index, row, column), hence each once; every yielded move passes
\* can_place; a fully occupied h x w piece that fits on an empty H x W board
\* contributes (H-h+1)*(W-w+1) moves, 190 for single and line2_h on the
\* empty 10 x 10 board.
C12_LegalMovesExactOrderedBoxMoves ==
    ret.op = "legal_moves" =>
        LET hand == states[1].hand
            board == boards[states[1].board]
            moves == ret.moves
        IN  /\ {moves[k] : k \in 1..Len(moves)} = BoxMoves(board, hand)
            /\ \A k \in 1..(Len(moves) - 1) : move_before(moves[k], moves[k + 1])
            /\ \A k \in 1..Len(moves) :
                  can_place(board, hand[moves[k].piece_index + 1],
                            moves[k].row, moves[k].col)
            /\ \A i \in 1..Len(hand) :
                  (/\ Solid(hand[i])
                   /\ board = [r \in 1..Len(board) |-> [c \in 1..Len(board[1]) |-> 0]]
                   /\ height(hand[i]) <= Len(board)
                   /\ width(hand[i]) <= Len(board[1]))
                  => Cardinality({k \in 1..Len(moves) : moves[k].piece_index = i - 1})
                     = (Len(board) - height(hand[i]) + 1)
                       * (Len(board[1]) - width(hand[i]) + 1)
            /\ (board = empty_board(BOARD_SIZE) /\ hand = <<single, line2_h>>)
                  => Len(moves) = 190

\* The 190 moves of the test, and a call on a small board on which two
\* pieces of one hand contribute moves.
C12_Witness ==
    /\ ret.op = "legal_moves"
    /\ boards[1] = empty_board(BOARD_SIZE)
    /\ states[1].hand = <<single, line2_h>>
    /\ Len(ret.moves) = 190
    /\ ret.moves[101] = Move(1, 0, 0)

(***************************************************************************)
(* Properties of the planner's parameter checks.                           *)
(***************************************************************************)
BadParameters ==
    \/ args.beam_width < 1
    \/ args.depth.given /\ args.depth.value < 0

\* C13: a planner call raises exactly when beam_width < 1 or the given depth
\* is negative, and it raises before a search node is built or a move is
\* simulated: the arena and the frontier are empty and the stores hold the
\* initial state and its board only.  With beam_width >= 1 and depth >= 0 or
\* omitted no call raises.
C13_RaisesExactlyOnBadParameters ==
    /\ pc # "start" => (pc = "raised" <=> BadParameters)
    /\ pc = "raised" =>
          /\ ret.raised
          /\ nodes = <<>>
          /\ beam = <<>>
          /\ Len(states) = 1
          /\ Len(boards) = 1

\* A call with a valid beam width and depth = -1 has raised, on a state with
\* a legal move.
C13_Witness ==
    /\ pc = "raised"
    /\ args.beam_width >= 1
    /\ args.depth.given
    /\ args.depth.value = -1
    /\ legal_moves(boards, states[1]) # <<>>

(***************************************************************************)
(* Two planner calls on the same initial state with the same arguments.    *)
(* When the first call and select_best_move have returned, BeamAgain       *)
(* starts the second: the arena and the frontier are new lists, the        *)
(* objects of the first call stay in the stores, and the sequence the      *)
(* first call returned is kept in args.earlier.                            *)
(***************************************************************************)
BeamAgain ==
    /\ pc = "first"
    /\ "earlier" \notin DOMAIN args
    /\ args' = [beam_width |-> args.beam_width, depth |-> args.depth,
                weights |-> args.weights, earlier |-> ret.seq]
    /\ ret' = NoRet
    /\ nodes' = <<>>
    /\ beam' = <<>>
    /\ step' = 0
    /\ max_depth' = 0
    /\ pc' = "start"
    /\ UNCHANGED <<boards, states>>

NextTwice == NextBeam \/ BeamAgain

SpecTwice == InitBeam /\ [][NextTwice]_vars

RawShapes ==
    { << <<1>> >>, << <<1, 1>> >>, << <<0, 1>> >>,
      <<>>, << <<>> >>, << <<1>>, <<1, 1>> >>, << <<2>> >>, << <<-1>> >> }

RawBoards ==
    PlayBoards
    \cup { <<>>, << <<>> >>, << <<0>>, <<0, 0>> >>, << <<-1>> >>, << <<0, -1>> >> }

RawScores == {-1, 0, 1}

\* pieces.py, _to_shape: the checks in the order of lines 45-58.
to_shape(shape) ==
    LET row_lengths == {Len(shape[i]) : i \in 1..Len(shape)}
    IN  IF Len(shape) = 0 THEN [raised |-> TRUE, shape |-> <<>>]
        ELSE IF Cardinality(row_lengths) # 1 THEN [raised |-> TRUE, shape |-> <<>>]
        ELSE IF 0 \in row_lengths THEN [raised |-> TRUE, shape |-> <<>>]
        ELSE IF \E i \in 1..Len(shape) : \E j \in 1..Len(shape[i]) :
                    shape[i][j] \notin {0, 1}
                THEN [raised |-> TRUE, shape |-> <<>>]
        ELSE [raised |-> FALSE, shape |-> shape]

\* pieces.py, Piece: the dataclass constructor stores its arguments.
Piece(name, shape) == [name |-> name, shape |-> shape]

\* pieces.py, Piece.from_dict
from_dict(name, raw_shape) ==
    IF to_shape(raw_shape).raised
       THEN [raised |-> TRUE, piece |-> Piece(name, <<>>)]
       ELSE [raised |-> FALSE, piece |-> Piece(name, to_shape(raw_shape).shape)]

\* state.py, board_from_rows: a new tuple of tuples, or an error.
board_from_rows(bs, rows) ==
    LET width_set == {Len(rows[i]) : i \in 1..Len(rows)}
    IN  IF Len(rows) = 0 THEN [raised |-> TRUE, boards |-> bs, board |-> NoBoard]
        ELSE IF Cardinality(width_set) # 1
                THEN [raised |-> TRUE, boards |-> bs, board |-> NoBoard]
        ELSE IF 0 \in width_set
                THEN [raised |-> TRUE, boards |-> bs, board |-> NoBoard]
        ELSE IF \E i \in 1..Len(rows) : \E j \in 1..Len(rows[i]) : rows[i][j] < 0
                THEN [raised |-> TRUE, boards |-> bs, board |-> NoBoard]
        ELSE [raised |-> FALSE, boards |-> Append(bs, rows), board |-> Len(bs) + 1]

InitData ==
    /\ boards = <<>>
    /\ states = <<>>
    /\ args \in [shape : RawShapes, rows : RawBoards, score : RawScores,
                  count : 0..(MaxHand + 1), hand_index : {-1, 0},
                  row : {0}, col : {0}]
    /\ ret = NoRet
    /\ nodes = <<>>
    /\ beam = <<>>
    /\ step = 0
    /\ max_depth = 0
    /\ pc = "data"

BoardReturns(r) ==
    /\ boards' = r.boards
    /\ ret' = [op |-> "board_from_rows", raised |-> r.raised, board |-> r.board]

CallBoardFromRows ==
    /\ pc = "data"
    /\ ret.op = "none"
    /\ BoardReturns(board_from_rows(boards, args.rows))
    /\ UNCHANGED <<states, args, nodes, beam, step, max_depth, pc>>

CallFromDict ==
    /\ pc = "data"
    /\ ret.op \in {"none", "board_from_rows"}
    /\ ret' = [op |-> "from_dict", raised |-> from_dict("raw", args.shape).raised,
               piece |-> from_dict("raw", args.shape).piece]
    /\ UNCHANGED <<boards, states, args, nodes, beam, step, max_depth, pc>>

CallPiece ==
    /\ pc = "data"
    /\ ret.op \in {"none", "board_from_rows"}
    /\ ret' = [op |-> "Piece", raised |-> FALSE, piece |-> Piece("raw", args.shape)]
    /\ UNCHANGED <<boards, states, args, nodes, beam, step, max_depth, pc>>

StateReturns(bs, r) ==
    /\ boards' = bs
    /\ states' = r.states
    /\ ret' = [op |-> "GameState", raised |-> r.raised, state |-> r.state]
    /\ pc' = IF r.raised THEN "raised" ELSE "move"

\* GameState(board, score, hand) on the board board_from_rows returned or, if
\* it was not called, on the raw rows; the hand holds args.count references
\* to the piece built before.
CallGameState ==
    /\ pc = "data"
    /\ ret.op \in {"from_dict", "Piece"}
    /\ ~ret.raised
    /\ StateReturns(IF boards = <<>> THEN <<args.rows>> ELSE boards,
                    GameState(IF boards = <<>> THEN <<args.rows>> ELSE boards,
                              states, 1, args.score,
                              [k \in 1..args.count |-> ret.piece]))
    /\ UNCHANGED <<args, nodes, beam, step, max_depth>>

NextData ==
    \/ CallBoardFromRows
    \/ CallFromDict
    \/ CallPiece
    \/ CallGameState
    \/ \E s \in DOMAIN states : CallSimulateMove(s) \/ CallApplyMove(s)

SpecData == InitData /\ [][NextData]_vars

(***************************************************************************)
(* Properties of construction.                                             *)
(***************************************************************************)
Malformed(grid) ==
    \/ Len(grid) = 0
    \/ \E r \in 1..Len(grid) :
          \/ Len(grid[r]) = 0
          \/ Len(grid[r]) # Len(grid[1])
          \/ \E c \in 1..Len(grid[r]) : grid[r][c] < 0

\* C15: every GameState object, the one construction built and every one a
\* successful simulate_move or apply_move returned, has score >= 0, at most
\* three pieces in hand and a rectangular board of non-negative cells with
\* the height and width of the initial board; a construction whose score is
\* negative, whose hand holds more than three pieces or whose board is not
\* such a grid raises, and no other construction does.
C15_StatesKeepConstructionInvariants ==
    /\ \A s \in DOMAIN states :
          /\ states[s].score >= 0
          /\ Len(states[s].hand) \in 0..3
          /\ ~Malformed(boards[states[s].board])
          /\ Len(boards[states[s].board]) = Len(boards[states[1].board])
          /\ Len(boards[states[s].board][1]) = Len(boards[states[1].board][1])
    /\ ret.op = "GameState" =>
          (ret.raised <=>
              (args.score < 0 \/ args.count > 3 \/ Malformed(boards[1])))

\* A move on a hand of three pieces has returned a state whose score grew:
\* the store holds the state built and the state returned.
C15_Witness ==
    /\ MoveCall(ret)
    /\ ~ret.raised
    /\ Len(states) = 2
    /\ Len(states[1].hand) = 3
    /\ states[2].score > states[1].score
    /\ boards[states[2].board] # boards[states[1].board]

\* C20 as claimed: every piece of every GameState object has a non-empty
\* rectangular shape of cells 0 and 1, and its block_count is the number of
\* cells can_place treats as occupied (the cells equal to 1 within the
\* height and width of the piece); every board of a state is a non-empty
\* rectangular grid of non-negative cells.
C20_NoMalformedDataInStates ==
    \A s \in DOMAIN states :
        /\ ~Malformed(boards[states[s].board])
        /\ \A k \in 1..Len(states[s].hand) :
              LET piece == states[s].hand[k]
              IN  /\ ~Malformed(piece.shape)
                  /\ \A i \in 1..Len(piece.shape) :
                        \A j \in 1..Len(piece.shape[i]) :
                            piece.shape[i][j] \in {0, 1}
                  /\ block_count(piece) =
                        Cardinality({ij \in (1..height(piece)) \X (1..width(piece)) :
                                        piece.shape[ij[1]][ij[2]] = 1})

(***************************************************************************)
(* Properties of the evaluator.                                            *)
(***************************************************************************)
Cells(board) == (1..Len(board)) \X (1..Len(board[1]))

FilledCells(board) == {rc \in Cells(board) : board[rc[1]][rc[2]] # 0}

\* The rows and the columns whose number of filled cells lies in lo..hi.
RowsInBand(board, lo, hi) ==
    {r \in 1..Len(board) :
        Cardinality({rc \in FilledCells(board) : rc[1] = r}) \in lo..hi}

ColsInBand(board, lo, hi) ==
    {c \in 1..Len(board[1]) :
        Cardinality({rc \in FilledCells(board) : rc[2] = c}) \in lo..hi}

\* The pairs of cells next to each other in a row or in a column, the left
\* or upper cell first, of which exactly one is filled.
Transitions(board) ==
    {p \in Cells(board) \X Cells(board) :
        /\ \/ p[2][1] = p[1][1] /\ p[2][2] = p[1][2] + 1
           \/ p[2][2] = p[1][2] /\ p[2][1] = p[1][1] + 1
        /\ (p[1] \in FilledCells(board)) # (p[2] \in FilledCells(board))}

\* C16: evaluate is the score plus the five weighted features, where the
\* mobility feature is the number of moves of the whole hand (a piece held
\* twice counts twice) and near_full_lines is taken with lo = 8, hi = 9;
\* the two features evaluate skips at weight zero contribute what
\* multiplying them by zero contributes.  Values are in hundredths.
C16_EvaluateIsWeightedSum ==
    ret.op = "evaluate" =>
        LET state == states[1]
            board == boards[state.board]
            w == ret.weights
        IN  ret.result =
                100 * state.score
                + w.mobility * Cardinality(BoxMoves(board, state.hand))
                + w.near_full_lines * (Cardinality(RowsInBand(board, 8, 9))
                                       + Cardinality(ColsInBand(board, 8, 9)))
                + w.roughness * Cardinality(Transitions(board))
                + w.fragments * empty_fragments(board)
                + w.enclosed_empties * enclosed_empties(board)

\* evaluate with the default weights on a state whose hand holds the same
\* piece twice, each copy with moves of its own.
C16_Witness ==
    /\ ret.op = "evaluate"
    /\ ret.weights = DEFAULT_WEIGHTS
    /\ states[1].hand = <<single, single>>
    /\ Cardinality(BoxMoves(boards[1], states[1].hand)) = 6
    /\ ret.result = 100 * states[1].score + 60
                     - 5 * Cardinality(Transitions(boards[1]))

\* C17: near_full_lines(board, lo, hi) is the number of rows plus the number
\* of columns whose count of non-zero cells lies in lo..hi, bounds included;
\* with the defaults lo = 8 and hi = 9 the 10 x 10 board whose only filled
\* cells are nine cells of row 0 gives 1.
C17_NearFullLinesCountsBand ==
    ret.op = "near_full_lines" =>
        /\ ret.result = Cardinality(RowsInBand(boards[states[1].board], ret.lo, ret.hi))
                        + Cardinality(ColsInBand(boards[states[1].board], ret.lo, ret.hi))
        /\ (boards[states[1].board] = nine_in_row /\ ret.lo = 8 /\ ret.hi = 9)
              => ret.result = 1

\* The call of the test: nine filled cells in one row, default band, result 1.
C17_Witness ==
    /\ ret.op = "near_full_lines"
    /\ boards[states[1].board] = nine_in_row
    /\ ret.lo = 8
    /\ ret.hi = 9
    /\ ret.result = 1

\* C18: roughness(board) is the number of pairs of cells adjacent in a row or
\* in a column of which exactly one is non-zero; it is 0 on a board without a
\* filled cell and on a board without an empty cell.
C18_RoughnessCountsTransitions ==
    ret.op = "roughness" =>
        LET board == boards[states[1].board]
        IN  /\ ret.result = Cardinality(Transitions(board))
            /\ FilledCells(board) = {} => ret.result = 0
            /\ FilledCells(board) = Cells(board) => ret.result = 0

\* roughness of a 2 x 2 board with one filled cell: one transition in its
\* row and one in its column.
C18_Witness ==
    /\ ret.op = "roughness"
    /\ Len(boards[1]) = 2
    /\ Len(boards[1][1]) = 2
    /\ Cardinality(FilledCells(boards[1])) = 1
    /\ ret.result = 2

(***************************************************************************)
(* beam_search.py: beam_search_best_sequence as one call.  beam_loop is    *)
(* the loop of lines 58-85 with d passes left; the result of the call is   *)
(* the path to the best node of the last frontier.                         *)
(***************************************************************************)
Frontier(acc, beam_width) ==
    SubSeq(sort_desc(acc.states, acc.nodes, acc.candidates, Len(acc.candidates)),
           1, IF beam_width < Len(acc.candidates)
                 THEN beam_width ELSE Len(acc.candidates))

RECURSIVE beam_loop(_, _, _, _, _)
RECURSIVE beam_pass(_, _, _, _, _, _)
\* Lines 73-85 of one pass: grown is the arena after the loops of lines 61-71.
beam_pass(acc, frontier, beam_width, weights, d, grown) ==
    IF grown.raised THEN [raised |-> TRUE, acc |-> acc, beam |-> frontier]
    ELSE IF grown.candidates = <<>>
       THEN [raised |-> FALSE, acc |-> acc, beam |-> frontier]
    ELSE beam_loop(grown, Frontier(grown, beam_width), beam_width, weights, d - 1)

beam_loop(acc, frontier, beam_width, weights, d) ==
    IF d <= 0 THEN [raised |-> FALSE, acc |-> acc, beam |-> frontier]
    ELSE beam_pass(acc, frontier, beam_width, weights, d,
                   expand_beam([acc EXCEPT !.candidates = <<>>], frontier, weights, 1))

\* Lines 87-89.
best_sequence(searched) ==
    IF searched.raised THEN [raised |-> TRUE, seq |-> <<>>]
    ELSE [raised |-> FALSE,
          seq |-> reconstruct_moves(searched.acc.nodes,
                     max_by_key(searched.acc.states, searched.acc.nodes,
                                searched.beam))]

beam_search_best_sequence(bs, ss, s, beam_width, depth, weights) ==
    IF beam_width <= 0 THEN [raised |-> TRUE, seq |-> <<>>]
    ELSE IF (IF depth.given THEN depth.value ELSE Len(ss[s].hand)) < 0
       THEN [raised |-> TRUE, seq |-> <<>>]
    ELSE best_sequence(
            beam_loop([raised |-> FALSE, boards |-> bs, states |-> ss,
                       nodes |-> <<Node(s, -1, NoMove, evaluate(bs, ss[s], weights))>>,
                       candidates |-> <<>>],
                      <<0>>, beam_width, weights,
                      IF depth.given THEN depth.value ELSE Len(ss[s].hand)))

(***************************************************************************)
(* simulate_beam.py: run_game.  `step` is move_count, state 1 of the store *)
(* is the local `state` (the states and boards a call leaves behind are    *)
(* dropped), and while a planned sequence is executed ret holds it with    *)
(* the position of the next move.  The board is empty_board(GameSize) in   *)
(* place of empty_board(10), a hand is any PIECES_IN_HAND pieces of the    *)
(* catalogue that fit on it (rng.choice), and a run is followed for        *)
(* MaxGameMoves moves.  GameTop is lines 55-74, GameMove one pass of the   *)
(* loop of lines 84-108 with the check of lines 113-114 behind it.         *)
(***************************************************************************)
GameSize == 3
MaxGameMoves == 4

PIECES_IN_HAND == 3

square2 == [name |-> "square2", shape |-> << <<1, 1>>, <<1, 1>> >>]

PIECES == {single, line2_h, square2}

Draws == [1..PIECES_IN_HAND -> PIECES]

Caps ==
    {[given |-> FALSE, value |-> 0]}
    \cup {[given |-> TRUE, value |-> v] : v \in -1..MaxGameMoves}

InitGame ==
    /\ boards = <<empty_board(GameSize)>>
    /\ states = <<[board |-> 1, score |-> 0, hand |-> <<>>]>>
    /\ args \in [beam_width : 0..MaxBeamWidth, weights : WeightChoices,
                  max_moves : Caps]
    /\ ret = NoRet
    /\ nodes = <<>>
    /\ beam = <<>>
    /\ step = 0
    /\ max_depth = 0
    /\ pc = "top"

capped(move_count) == args.max_moves.given /\ move_count >= args.max_moves.value

\* Line 116: the game ends after move_count moves in state `state` on `board`.
GameReturns(board, state, move_count) ==
    /\ boards' = <<board>>
    /\ states' = <<[state EXCEPT !.board = 1]>>
    /\ step' = move_count
    /\ ret' = [op |-> "run_game", raised |-> FALSE, moves |-> move_count,
               final_score |-> state.score]
    /\ pc' = "returned"

GameRaises ==
    /\ ret' = [op |-> "run_game", raised |-> TRUE]
    /\ pc' = "raised"
    /\ UNCHANGED <<boards, states, step>>

\* Lines 73-74 and 84: the planner has returned or raised: planned.
GamePlanned(state, planned) ==
    IF planned.raised THEN GameRaises
    ELSE IF planned.seq = <<>> THEN GameReturns(boards[1], state, step)
    ELSE /\ states' = <<state>>
         /\ ret' = [op |-> "beam_search_best_sequence", seq |-> planned.seq,
                    next |-> 1]
         /\ pc' = "exec"
         /\ UNCHANGED <<boards, step>>

\* Lines 58-72: `dealt` is the state after GameState.from_game_py.
GameDealt(dealt) ==
    IF dealt.raised THEN GameRaises
    ELSE IF ~any_legal_move(boards, dealt.states[1])
       THEN GameReturns(boards[1], dealt.states[1], step)
    ELSE GamePlanned(dealt.states[1],
             beam_search_best_sequence(
                 boards, dealt.states, 1, args.beam_width,
                 [given |-> TRUE, value |-> Len(dealt.states[1].hand)],
                 args.weights))

\* Lines 55-74 with a new hand drawn on every pass.
GameTopAlwaysDeals ==
    /\ pc = "top"
    /\ IF capped(step)
          THEN GameReturns(boards[1], states[1], step)
          ELSE \E hand \in Draws :
                  GameDealt(GameState(board_from_rows(<<>>, boards[1]).boards,
                                      <<>>, 1, states[1].score, hand))
    /\ UNCHANGED <<args, nodes, beam, max_depth>>

GameTop ==
    /\ pc = "top"
    /\ IF capped(step)
          THEN GameReturns(boards[1], states[1], step)
          ELSE \E hand \in Draws :
                  GameDealt(IF states[1].hand = <<>>
                               THEN GameState(
                                        board_from_rows(<<>>, boards[1]).boards,
                                        <<>>, 1, states[1].score, hand)
                               ELSE [raised |-> FALSE, states |-> states,
                                     state |-> 1])
    /\ UNCHANGED <<args, nodes, beam, max_depth>>

\* Lines 105-114 without the two checks of the move cap.
GameMovedUncapped(sim) ==
    IF sim.raised THEN GameRaises
    ELSE /\ boards' = <<sim.boards[sim.states[sim.state].board]>>
         /\ states' = <<[sim.states[sim.state] EXCEPT !.board = 1]>>
         /\ step' = step + 1
         /\ IF ret.next < Len(ret.seq)
               THEN /\ ret' = [ret EXCEPT !.next = @ + 1]
                    /\ pc' = "exec"
               ELSE /\ ret' = NoRet
                    /\ pc' = "top"

GameMoveUncapped ==
    /\ pc = "exec"
    /\ step < MaxGameMoves
    /\ GameMovedUncapped(simulate_move(boards, states, 1,
                                       ret.seq[ret.next].piece_index,
                                       ret.seq[ret.next].row, ret.seq[ret.next].col))
    /\ UNCHANGED <<args, nodes, beam, max_depth>>

\* Lines 105-114: simulate_move has returned or raised: sim.
GameMoved(sim) ==
    IF sim.raised THEN GameRaises
    ELSE IF capped(step + 1)
       THEN GameReturns(sim.boards[sim.states[sim.state].board],
                        sim.states[sim.state], step + 1)
    ELSE /\ boards' = <<sim.boards[sim.states[sim.state].board]>>
         /\ states' = <<[sim.states[sim.state] EXCEPT !.board = 1]>>
         /\ step' = step + 1
         /\ IF ret.next < Len(ret.seq)
               THEN /\ ret' = [ret EXCEPT !.next = @ + 1]
                    /\ pc' = "exec"
               ELSE /\ ret' = NoRet
                    /\ pc' = "top"

GameMove ==
    /\ pc = "exec"
    /\ step < MaxGameMoves
    /\ GameMoved(simulate_move(boards, states, 1, ret.seq[ret.next].piece_index,
                               ret.seq[ret.next].row, ret.seq[ret.next].col))
    /\ UNCHANGED <<args, nodes, beam, max_depth>>

NextGame == GameTop \/ GameMove

SpecGame == InitGame /\ [][NextGame]_vars

(***************************************************************************)
(* Properties of run_game.                                                 *)
(***************************************************************************)
\* C19 as claimed: when run_game has returned, max_moves was given and the
\* number of executed moves equals it, or the final state has no legal move;
\* once a move is executed or the game has returned, the number of executed
\* moves does not exceed a given max_moves.
C19_StopsAtCapOrWithoutMoves ==
    /\ pc = "returned" =>
          \/ args.max_moves.given /\ step = args.max_moves.value
          \/ BoxMoves(boards[1], states[1].hand) = {}
    /\ (args.max_moves.given /\ (step > 0 \/ pc = "returned"))
          => step <= args.max_moves.value

\* C19: when run_game has returned, a max_moves >= 0 was given and the number
\* of executed moves equals it, or the final state has no legal move; at no
\* time does the number of executed moves exceed a given max_moves >= 0.  A
\* negative max_moves ends the game at once with no move executed.
C19_StopsAtNonNegativeCapOrWithoutMoves ==
    /\ pc = "returned" =>
          \/ /\ args.max_moves.given
             /\ args.max_moves.value >= 0
             /\ step = args.max_moves.value
          \/ BoxMoves(boards[1], states[1].hand) = {}
    /\ (args.max_moves.given /\ args.max_moves.value >= 0)
          => step <= args.max_moves.value
    /\ (args.max_moves.given /\ args.max_moves.value < 0) => step = 0

\* A game without a move cap has ended after some moves in a state whose
\* freshly dealt hand has no legal move.
C19_Witness ==
    /\ pc = "returned"
    /\ ~args.max_moves.given
    /\ step > 0
    /\ Len(states[1].hand) = PIECES_IN_HAND
    /\ BoxMoves(boards[1], states[1].hand) = {}

(***************************************************************************)
(* Properties of the planner's frontier.                                   *)
(***************************************************************************)
\* Node i ranks strictly above node j: greater evaluation value, or the same
\* value and a greater state score, or the same of both and fewer pieces left
\* in the hand.
RankedAbove(ss, ns, i, j) ==
    LET a == ns[i + 1]
        b == ns[j + 1]
    IN  \/ a.value > b.value
        \/ a.value = b.value /\ ss[a.state].score > ss[b.state].score
        \/ /\ a.value = b.value
           /\ ss[a.state].score = ss[b.state].score
           /\ Len(ss[a.state].hand) < Len(ss[b.state].hand)

Elements(seq) == {seq[k] : k \in 1..Len(seq)}

Distinct(seq) == Cardinality(Elements(seq)) = Len(seq)

\* The step of the planner that has just been taken produced children.
ProducedChildren == pc = "loop" /\ step' = step + 1

\* C21: after every expansion step that produced children the new frontier
\* consists of exactly min(beam_width, number of children) distinct children
\* of that step, no discarded child ranks strictly above a kept one, and the
\* frontier never holds more than beam_width nodes.
C21_FrontierIsTopBeamWidthChildren ==
    /\ [](Len(beam) <= args.beam_width)
    /\ [][ProducedChildren =>
            LET children == Len(nodes)..(Len(nodes') - 1)
            IN  /\ children # {}
                /\ Len(beam') = (IF args.beam_width < Cardinality(children)
                                    THEN args.beam_width
                                    ELSE Cardinality(children))
                /\ Distinct(beam')
                /\ Elements(beam') \subseteq children
                /\ \A kept \in Elements(beam'),
                      discarded \in children \ Elements(beam') :
                        ~RankedAbove(states', nodes', discarded, kept)]_vars

\* The first step produced more children than beam_width = 2, kept two of them
\* and discarded a child that ranks strictly below a kept one.
C21_Witness ==
    /\ pc = "loop"
    /\ step = 1
    /\ args.beam_width = 2
    /\ Len(beam) = 2
    /\ Len(nodes) > 3
    /\ \E discarded \in (1..(Len(nodes) - 1)) \ Elements(beam) :
          \E kept \in Elements(beam) :
              RankedAbove(states, nodes, kept, discarded)

\* Node i has a strictly greater (evaluation value, state score) pair than node j.
PairAbove(ss, ns, i, j) ==
    LET a == ns[i + 1]
        b == ns[j + 1]
    IN  \/ a.value > b.value
        \/ a.value = b.value /\ ss[a.state].score > ss[b.state].score

\* The moves on the way from the root to node i, root's side first.
RECURSIVE path_to(_, _)
path_to(ns, i) ==
    IF ns[i + 1].parent = -1 THEN <<>>
    ELSE Append(path_to(ns, ns[i + 1].parent), ns[i + 1].move)

\* C22: node 0 is the root (parent -1, no move), every other node carries a
\* move and a parent index that is smaller than its own, and the sequence
\* returned is the root-to-node move path of a node of the final frontier
\* whose (evaluation value, state score) pair no frontier node exceeds.
C22_ReturnsPathOfBestFrontierNode ==
    /\ \A i \in 0..(Len(nodes) - 1) :
          IF i = 0
             THEN nodes[1].parent = -1 /\ nodes[1].move = NoMove
             ELSE /\ nodes[i + 1].parent >= 0
                  /\ nodes[i + 1].parent < i
                  /\ nodes[i + 1].move # NoMove
    /\ Returned =>
          \E best \in Elements(beam) :
              /\ \A other \in Elements(beam) :
                    ~PairAbove(states, nodes, other, best)
              /\ ret.seq = path_to(nodes, best)

\* A search has returned the path of the better of two frontier nodes with
\* different (value, score) pairs.
C22_Witness ==
    /\ pc = "done"
    /\ Len(beam) = 2
    /\ ret.seq # <<>>
    /\ PairAbove(states, nodes, beam[1], beam[2])
    /\ ret.seq = path_to(nodes, beam[1])
    /\ path_to(nodes, beam[1]) # path_to(nodes, beam[2])

(***************************************************************************)
(* Termination of a planner call.                                          *)
(***************************************************************************)
\* min(depth limit, len(initial.hand)); the depth limit is depth, or the size
\* of the hand when depth is omitted.
StepLimit ==
    IF args.depth.given /\ args.depth.value < Len(states[1].hand)
       THEN args.depth.value
       ELSE Len(states[1].hand)

\* Some node of the frontier has a legal move.
FrontierCanMove ==
    \E i \in Elements(beam) :
        FitsSomewhere(boards[states[nodes[i + 1].state].board],
                      states[nodes[i + 1].state].hand)

C24_KeysAloneDecide ==
    /\ [][ProducedChildren =>
            \A kept \in Elements(beam'),
               discarded \in (Len(nodes)..(Len(nodes') - 1)) \ Elements(beam') :
                RankedAbove(states', nodes', kept, discarded)]_vars
    /\ [](Returned =>
            \A best \in Elements(beam), other \in Elements(beam) :
                (ret.seq = path_to(nodes, best) /\ ret.seq # path_to(nodes, other))
                    => PairAbove(states, nodes, best, other))

(***************************************************************************)
(* heuristics.py on boards with cells off the border: enclosed_empties and *)
(* empty_fragments, called on every board of up to MaxRegionRows rows and  *)
(* MaxRegionCols columns.                                                  *)
(***************************************************************************)
MaxRegionRows == 3
MaxRegionCols == 4

RegionBoards ==
    UNION {BoardsOf(h, w) : h \in 1..MaxRegionRows, w \in 1..MaxRegionCols}

InitRegion ==
    /\ boards \in {<<g>> : g \in RegionBoards}
    /\ states = <<[board |-> 1, score |-> 0, hand |-> <<>>]>>
    /\ args = <<>>
    /\ ret = NoRet
    /\ nodes = <<>>
    /\ beam = <<>>
    /\ step = 0
    /\ max_depth = 0
    /\ pc = "region"

CallEnclosedEmpties ==
    /\ pc = "region"
    /\ ret' = [op |-> "enclosed_empties", result |-> enclosed_empties(boards[1])]
    /\ pc' = "returned"
    /\ UNCHANGED <<boards, states, args, nodes, beam, step, max_depth>>

CallEmptyFragments ==
    /\ pc = "region"
    /\ ret' = [op |-> "empty_fragments", result |-> empty_fragments(boards[1])]
    /\ pc' = "returned"
    /\ UNCHANGED <<boards, states, args, nodes, beam, step, max_depth>>

NextRegion == CallEnclosedEmpties \/ CallEmptyFragments

SpecRegion == InitRegion /\ [][NextRegion]_vars

(***************************************************************************)
(* Properties of enclosed_empties.                                         *)
(***************************************************************************)
Unfilled(board) == Cells(board) \ FilledCells(board)

OnBorder(board, rc) ==
    \/ rc[1] = 1 \/ rc[1] = Len(board)
    \/ rc[2] = 1 \/ rc[2] = Len(board[1])

Adjacent(a, b) ==
    \/ a[1] = b[1] /\ (a[2] = b[2] + 1 \/ b[2] = a[2] + 1)
    \/ a[2] = b[2] /\ (a[1] = b[1] + 1 \/ b[1] = a[1] + 1)

\* The sets of empty cells off the border that no empty cell outside the set
\* is adjacent to.  No path of adjacent empty cells leaves such a set, and the
\* empty cells without a path to an empty border cell form one.
Sealed(board) ==
    {S \in SUBSET {rc \in Unfilled(board) : ~OnBorder(board, rc)} :
        \A a \in S, b \in Unfilled(board) \ S : ~Adjacent(a, b)}

\* C25: enclosed_empties is the number of empty cells from which no path of
\* adjacent empty cells leads to an empty border cell; it is 0 when every
\* region of empty cells touches the border, and it never exceeds the number
\* of empty cells.
C25_EnclosedEmptiesCountsSealedCells ==
    (pc = "returned" /\ ret.op = "enclosed_empties") =>
        /\ ret.result = Cardinality(UNION Sealed(boards[1]))
        /\ Sealed(boards[1]) = {{}} => ret.result = 0
        /\ ret.result <= Cardinality(Unfilled(boards[1]))

\* A board with a region of two enclosed cells and an empty border cell.
C25_Witness ==
    /\ pc = "returned"
    /\ ret.op = "enclosed_empties"
    /\ ret.result = 2
    /\ \E rc \in Unfilled(boards[1]) : OnBorder(boards[1], rc)

(***************************************************************************)
(* Boards of the states a move returns.                                    *)
(***************************************************************************)
HasFullLine(board) ==
    \/ \E r \in 1..Len(board) : \A c \in 1..Len(board[1]) : board[r][c] # 0
    \/ \E c \in 1..Len(board[1]) : \A r \in 1..Len(board) : board[r][c] # 0

\* The states simulate_move and apply_move have returned: all but state 1.
MoveStates == 2..Len(states)

\* C26: the board of every state returned by simulate_move or apply_move has
\* no full row and no full column, whatever the board of the state moved
\* from; clear_lines returns it as it is, with counts (0, 0, 0).
C26_ReturnedBoardsHaveNoFullLine ==
    \A s \in MoveStates :
        /\ ~HasFullLine(boards[states[s].board])
        /\ clear_lines(boards, states[s].board)
              = [boards |-> boards, board |-> states[s].board,
                 cells |-> 0, rows |-> 0, cols |-> 0]

\* A move from a board with a full row returned a state: the move completed
\* a column, and the row and the column are cleared on the new board.
C26_Witness ==
    /\ MoveCall(ret)
    /\ ~ret.raised
    /\ ret.s = 1
    /\ args.hand_index >= 0
    /\ Len(boards[1]) = 2
    /\ HasFullLine(boards[1])
    /\ ~FullyOccupied(boards[1])
    /\ ret.rows_cleared = 1
    /\ ret.cols_cleared = 1
    /\ ~HasFullLine(boards[states[ret.state].board])

(***************************************************************************)
(* Depth of the frontier and the end of the returned plan.                 *)
(***************************************************************************)
\* The number of parent links between node i and the root.
RECURSIVE depth_of(_, _)
depth_of(ns, i) ==
    IF ns[i + 1].parent = -1 THEN 0 ELSE 1 + depth_of(ns, ns[i + 1].parent)

\* The state reached by applying seq from position k on with simulate_move,
\* starting in state s, and the store that holds its board.
RECURSIVE replay_end(_, _, _, _, _)
replay_end(bs, ss, s, seq, k) ==
    IF k > Len(seq) THEN [boards |-> bs, state |-> ss[s]]
    ELSE LET sim == simulate_move(bs, ss, s, seq[k].piece_index,
                                  seq[k].row, seq[k].col)
         IN  replay_end(sim.boards, sim.states, sim.state, seq, k + 1)

PlanEnd == replay_end(boards, states, 1, ret.seq, 1)

PlanEndBoard == PlanEnd.boards[PlanEnd.state.board]

Unpruned ==
    \A d \in 1..step :
        Cardinality({i \in 0..(Len(nodes) - 1) : depth_of(nodes, i) = d})
            <= args.beam_width

\* <<length, evaluation value, score of the state reached>> of every sequence
\* of at most n legal moves from state s.
RECURSIVE Ends(_, _, _, _, _)
Ends(bs, ss, s, n, weights) ==
    {<<0, evaluate(bs, ss[s], weights), ss[s].score>>}
    \cup (IF n = 0 THEN {}
          ELSE UNION {
                 LET sim == simulate_move(bs, ss, s, m.piece_index, m.row, m.col)
                 IN  {<<e[1] + 1, e[2], e[3]>> :
                         e \in Ends(sim.boards, sim.states, sim.state, n - 1, weights)} :
                 m \in BoxMoves(bs[ss[s].board], ss[s].hand)})

\* The ends of the sequences of the greatest length among `ends`.
Longest(ends) == {e \in ends : \A f \in ends : f[1] <= e[1]}

Without(seq, k) == SubSeq(seq, 1, k - 1) \o SubSeq(seq, k + 1, Len(seq))

\* C29: a hand is drawn only when the hand is empty; every move of a planned
\* sequence executes without raising and takes its piece, and no other, out
\* of the hand; when a plan has been executed and pieces are left in the hand
\* the state has no legal move and the game ends there with that hand.
C29_HandIsPlayedOutOrStuck ==
    /\ [][(pc = "top" /\ states'[1].hand # states[1].hand)
            => (/\ states[1].hand = <<>>
                /\ Len(states'[1].hand) = PIECES_IN_HAND)]_vars
    /\ [][pc = "exec"
            => (/\ pc' # "raised"
                /\ step' = step + 1
                /\ states'[1].hand
                      = Without(states[1].hand,
                                ret.seq[ret.next].piece_index + 1))]_vars
    /\ []((pc = "top" /\ states[1].hand # <<>>)
            => BoxMoves(boards[1], states[1].hand) = {})
    /\ [][(pc = "top" /\ states[1].hand # <<>>)
            => (pc' = "returned" /\ states' = states)]_vars

\* A plan shorter than its hand has been executed below the move cap: pieces
\* are left, and none of them fits.
C29_Witness ==
    /\ pc = "top"
    /\ step > 0
    /\ ~capped(step)
    /\ states[1].hand # <<>>
    /\ BoxMoves(boards[1], states[1].hand) = {}

====
